---------------------------- MODULE Spec2Model ----------------------------
(***************************************************************************)
(* The ranking / battle engine of backend/server.py: the llm_models        *)
(* catalog and the votes ledger held in the document store, and the        *)
(* handlers seed_models, get_all_models, get_battle, submit_vote,          *)
(* get_leaderboard and get_battle_stats.                                   *)
(*                                                                         *)
(* Spec  : requests run one after another (each handler is one step).      *)
(*         The GET handlers change nothing: what they return is given by   *)
(*         the operators get_..._responses of the store.                   *)
(* SpecC : requests of several clients interleave at the store calls       *)
(*         (every `await db...` of seed_models and submit_vote is a step). *)
(*                                                                         *)
(* Numbers: an id is a uuid4 string in the code; here the n-th uuid drawn  *)
(* is the integer n.  win_rate is a float with one decimal; here it is     *)
(* held in tenths of a percent (1000 is 100.0, 667 is 66.7).               *)
(* performance_score is held as the integer the seed list gives (95.0 is   *)
(* 95).  Vote.id, Vote.timestamp, Vote.voter_ip and LLMModel.created_at    *)
(* are never read by any handler and are left out.                         *)
(***************************************************************************)
EXTENDS Integers, Sequences, FiniteSets, TLC

\* Bounds of the model.
NumSeedModels == 3      \* how many items of the seed list are used in Spec
NumSeedModelsC == 4     \* how many items of the seed list are used in SpecC
MaxSeeds == 2           \* seed requests in a behaviour
MaxVotes == 2           \* vote requests in a behaviour
NumClients == 2         \* clients whose requests interleave in SpecC
MaxRequests == 3        \* seed and vote requests in a behaviour of SpecC

\* Two ids that no uuid4 draw ever produced: what a direct call may still send.
UnknownId == 0 - 1
OtherUnknownId == 0 - 2

\* Python's None where a name is expected (top_model of /stats).
None == "None"

\* server.py:243-308, the list `models` of seed_models.
SeedList ==
  << [name |-> "GPT-4", provider |-> "OpenAI",
      description |-> "OpenAI's most advanced GPT model with superior reasoning capabilities",
      capabilities |-> <<"Text Generation", "Code", "Math", "Analysis", "Creative Writing">>,
      performance_score |-> 95,
      image_url |-> "https://images.unsplash.com/photo-1677442136019-21780ecad995?w=400"],
     [name |-> "Claude 4 Sonnet", provider |-> "Anthropic",
      description |-> "Anthropic's flagship model balancing intelligence, speed, and cost",
      capabilities |-> <<"Text Analysis", "Code", "Math", "Creative Tasks", "Safety">>,
      performance_score |-> 94,
      image_url |-> "https://images.unsplash.com/photo-1655635949348-953b0e3c140a?w=400"],
     [name |-> "Gemini 2.5 Pro", provider |-> "Google",
      description |-> "Google's most advanced multimodal AI with exceptional capabilities",
      capabilities |-> <<"Multimodal", "Long Context", "Code", "Math", "Analysis">>,
      performance_score |-> 93,
      image_url |-> "https://images.unsplash.com/photo-1639322537228-f710d846310a?w=400"],
     [name |-> "Claude 4 Haiku", provider |-> "Anthropic",
      description |-> "Fast and efficient model for quick responses",
      capabilities |-> <<"Speed", "Text Generation", "Basic Analysis", "Code">>,
      performance_score |-> 87,
      image_url |-> "https://images.unsplash.com/photo-1620712943543-bcc4688e7485?w=400"],
     [name |-> "Llama 3.3", provider |-> "Meta",
      description |-> "Open-source powerhouse with strong performance",
      capabilities |-> <<"Open Source", "Text Generation", "Code", "Multilingual">>,
      performance_score |-> 89,
      image_url |-> "https://images.unsplash.com/photo-1555949963-aa79dcee981c?w=400"],
     [name |-> "Mistral Large", provider |-> "Mistral AI",
      description |-> "European AI model with strong multilingual capabilities",
      capabilities |-> <<"Multilingual", "Code", "Text Generation", "Analysis">>,
      performance_score |-> 86,
      image_url |-> "https://images.unsplash.com/photo-1451187580459-43490279c0fa?w=400"],
     [name |-> "PaLM 2", provider |-> "Google",
      description |-> "Google's language model with strong reasoning abilities",
      capabilities |-> <<"Reasoning", "Code", "Math", "Multilingual">>,
      performance_score |-> 85,
      image_url |-> "https://images.unsplash.com/photo-1518709268805-4e9042af2176?w=400"],
     [name |-> "GPT-3.5 Turbo", provider |-> "OpenAI",
      description |-> "Fast and cost-effective model for general tasks",
      capabilities |-> <<"Speed", "Cost-effective", "Text Generation", "Code">>,
      performance_score |-> 82,
      image_url |-> "https://images.unsplash.com/photo-1676277791608-ac54325e36e1?w=400"] >>

\* The seed list of the model: the first NumSeedModels items of the code's.
models == SubSeq(SeedList, 1, NumSeedModels)

\* The seed list of SpecC: one item more, so that two votes can name two
\* pairs of entities with no entity in common.
modelsC == SubSeq(SeedList, 1, NumSeedModelsC)

Clients == 1 .. NumClients

VARIABLES
  db,         \* the document store: db.llm_models and db.votes, in insertion order
  uuid,       \* how many uuid4 values have been drawn for entities
  seeded,     \* how many seed requests have returned
  response,   \* the response of the seed or vote request that returned last
  accepted,   \* how many vote requests have returned success
  pc,         \* SpecC: where each client's request stands
  local       \* SpecC: the local variables of each client's request

vars == <<db, uuid, seeded, response, accepted, pc, local>>

-----------------------------------------------------------------------------
(* The models.                                                             *)

\* LLMModel(**model_data): the pydantic defaults of the counters.
LLMModel(model_data, id) ==
  [id |-> id,
   name |-> model_data.name,
   provider |-> model_data.provider,
   description |-> model_data.description,
   capabilities |-> model_data.capabilities,
   performance_score |-> model_data.performance_score,
   total_votes |-> 0,
   wins |-> 0,
   losses |-> 0,
   win_rate |-> 0,
   image_url |-> model_data.image_url]

\* round(n / d * 100, 1) in tenths, for the quotient n / d of two counters:
\* Python rounds the double to the nearest tenth, a tie going to the even
\* tenth.  (Exact while d < 80; from 23/80 on the double arithmetic of
\* n / d * 100 can land on the other side of a tie.)
round1(n, d) ==
  LET q == (n * 1000) \div d
      r == (n * 1000) % d
  IN  IF 2 * r < d THEN q
      ELSE IF 2 * r > d THEN q + 1
      ELSE IF q % 2 = 0 THEN q ELSE q + 1

\* A win rate worked out from the losses.
calculate_win_rate_of_losses(self) ==
  IF self.total_votes = 0 THEN 0 ELSE round1(self.losses, self.total_votes)

calculate_win_rate(self) ==
  IF self.total_votes = 0 THEN 0 ELSE round1(self.wins, self.total_votes)

Vote(winner_id, loser_id) == [winner_id |-> winner_id, loser_id |-> loser_id]

-----------------------------------------------------------------------------
(* The store operations the handlers call.                                 *)

\* A drop that takes the whole database with it.
drop_database(d, coll) == [llm_models |-> <<>>, votes |-> <<>>]

drop(d, coll) == [d EXCEPT ![coll] = <<>>]

insert_one(d, coll, doc) == [d EXCEPT ![coll] = Append(@, doc)]

\* A count that always looks at the catalog.
count_documents_of_catalog(d, coll) == Len(d.llm_models)

count_documents(d, coll) == Len(d[coll])

find(d, coll) == d[coll]

\* The position of the first document whose id matches, 0 when none does.
first_match(d, coll, id) ==
  IF \E i \in 1 .. Len(d[coll]) : d[coll][i].id = id
  THEN CHOOSE i \in 1 .. Len(d[coll]) :
         /\ d[coll][i].id = id
         /\ \A j \in 1 .. (i - 1) : d[coll][j].id # id
  ELSE 0

\* find_one(filter): <<the document>>, or <<>> for Python's None.
find_one(d, coll, id) ==
  LET i == first_match(d, coll, id)
  IN  IF i = 0 THEN <<>> ELSE <<d[coll][i]>>

\* An update that sets the counters where it should add to them.
update_one_inc_as_set(d, coll, id, inc) ==
  LET i == IF \E k \in 1 .. Len(d[coll]) : d[coll][k].id = id
           THEN CHOOSE k \in 1 .. Len(d[coll]) : d[coll][k].id = id
           ELSE 0
  IN  IF i = 0 THEN d
      ELSE [d EXCEPT ![coll][i].total_votes = inc.total_votes,
                     ![coll][i].wins = inc.wins,
                     ![coll][i].losses = inc.losses]

\* update_one(filter, {"$inc": inc}): the first match, or nothing.
update_one_inc(d, coll, id, inc) ==
  LET i == first_match(d, coll, id)
  IN  IF i = 0 THEN d
      ELSE [d EXCEPT ![coll][i].total_votes = @ + inc.total_votes,
                     ![coll][i].wins = @ + inc.wins,
                     ![coll][i].losses = @ + inc.losses]

\* A $set that goes to every document of the collection.
update_many_set(d, coll, id, win_rate) ==
  [d EXCEPT ![coll] = [i \in 1 .. Len(d[coll]) |-> [d[coll][i] EXCEPT !.win_rate = win_rate]]]

\* update_one(filter, {"$set": {"win_rate": win_rate}}).
update_one_set(d, coll, id, win_rate) ==
  LET i == first_match(d, coll, id)
  IN  IF i = 0 THEN d ELSE [d EXCEPT ![coll][i].win_rate = win_rate]

\* A winner update that forgets total_votes.
winner_update_without_total == [total_votes |-> 0, wins |-> 1, losses |-> 0]

winner_update == [total_votes |-> 1, wins |-> 1, losses |-> 0]

\* A loser update that counts a win.
loser_update_as_win == [total_votes |-> 1, wins |-> 1, losses |-> 0]

loser_update == [total_votes |-> 1, wins |-> 0, losses |-> 1]

\* sort(keys): document x may stand before document y.  keys is a list of
\* <<field, direction>>, direction -1 for descending and 1 for ascending.
in_order(x, y, keys) ==
  \/ \A k \in 1 .. Len(keys) : x[keys[k][1]] = y[keys[k][1]]
  \/ \E k \in 1 .. Len(keys) :
       /\ \A j \in 1 .. (k - 1) : x[keys[j][1]] = y[keys[j][1]]
       /\ IF keys[k][2] < 0
          THEN x[keys[k][1]] > y[keys[k][1]]
          ELSE x[keys[k][1]] < y[keys[k][1]]

\* find().sort(keys): every order of the collection the sort allows.  The
\* store leaves the order of documents with equal keys open.
find_sort(d, coll, keys) ==
  LET n == Len(d[coll])
  IN  { [i \in 1 .. n |-> d[coll][p[i]]] :
          p \in { q \in Permutations(1 .. n) :
                    \A i \in 1 .. (n - 1) :
                      in_order(d[coll][q[i]], d[coll][q[i + 1]], keys) } }

\* find().sort(keys).limit(1).to_list(1): the documents that can come first.
find_sort_limit_1(d, coll, keys) ==
  IF Len(d[coll]) = 0 THEN { <<>> }
  ELSE { <<d[coll][i]>> :
           i \in { k \in 1 .. Len(d[coll]) :
                     \A j \in 1 .. Len(d[coll]) : in_order(d[coll][k], d[coll][j], keys) } }

\* A sort that leaves win_rate out.
leaderboard_sort_wins_only == << <<"wins", 0 - 1>> >>

\* server.py:402: [("wins", -1), ("win_rate", -1)].
leaderboard_sort == << <<"wins", 0 - 1>>, <<"win_rate", 0 - 1>> >>

\* A top-model sort that runs upwards.
top_model_sort_ascending == << <<"wins", 1>> >>

\* server.py:416: [("wins", -1)].
top_model_sort == << <<"wins", 0 - 1>> >>

\* Two independent draws: the same position may come twice.
random_choices_2(population) ==
  { <<population[i], population[j]>> :
      <<i, j>> \in (1 .. Len(population)) \X (1 .. Len(population)) }

\* random.sample(population, 2): two different positions of the list.
random_sample_2(population) ==
  { <<population[i], population[j]>> :
      <<i, j>> \in { ij \in (1 .. Len(population)) \X (1 .. Len(population)) : ij[1] # ij[2] } }

-----------------------------------------------------------------------------
(* The handlers as functions of the store.                                 *)

\* server.py:315-317: insert the seed items from the i-th on, each with a
\* fresh uuid4 (u uuids were drawn before).
RECURSIVE seed_insert(_, _, _)
seed_insert(d, i, u) ==
  IF i > Len(models) THEN d
  ELSE seed_insert(insert_one(d, "llm_models", LLMModel(models[i], u + 1)), i + 1, u + 1)

\* A seed that does not clear the catalog first.
seed_models_db_without_drop(d, u) == seed_insert(d, 1, u)

\* server.py:310-319: the store after seed_models.
seed_models_db(d, u) == seed_insert(drop(d, "llm_models"), 1, u)

\* server.py:383-391: one round of the win-rate loop.
recalculate(d, model_id) ==
  LET model == find_one(d, "llm_models", model_id)
  IN  IF model # <<>>
      THEN update_one_set(d, "llm_models", model_id, calculate_win_rate(model[1]))
      ELSE d

\* A submit_vote that touches the counters only when both ids resolve.
submit_vote_db_both_or_none(d, winner_id, loser_id) ==
  LET d1 == insert_one(d, "votes", Vote(winner_id, loser_id))
  IN  IF find_one(d, "llm_models", winner_id) = <<>> \/ find_one(d, "llm_models", loser_id) = <<>>
      THEN d1
      ELSE recalculate(recalculate(
             update_one_inc(update_one_inc(d1, "llm_models", winner_id, winner_update),
                            "llm_models", loser_id, loser_update),
             winner_id), loser_id)

\* A submit_vote that records a vote only when one of its ids resolves.
submit_vote_db_checked(d, winner_id, loser_id) ==
  IF find_one(d, "llm_models", winner_id) = <<>> /\ find_one(d, "llm_models", loser_id) = <<>>
  THEN d
  ELSE recalculate(recalculate(
         update_one_inc(update_one_inc(insert_one(d, "votes", Vote(winner_id, loser_id)),
                                       "llm_models", winner_id, winner_update),
                        "llm_models", loser_id, loser_update),
         winner_id), loser_id)

\* server.py:356-391: the store after submit_vote.
submit_vote_db(d, winner_id, loser_id) ==
  LET d1 == insert_one(d, "votes", Vote(winner_id, loser_id))
      d2 == update_one_inc(d1, "llm_models", winner_id, winner_update)
      d3 == update_one_inc(d2, "llm_models", loser_id, loser_update)
      d4 == recalculate(d3, winner_id)
  IN  recalculate(d4, loser_id)

\* server.py:328-329.
get_all_models_responses(d) ==
  { [op |-> "models", status |-> 200, req |-> <<>>, body |-> find(d, "llm_models")] }

\* server.py:337-350: the responses get_battle can give.  The HTTPException
\* (400) raised inside the try is caught by `except Exception` and raised
\* again with status 500.
get_battle_responses(d) ==
  LET found == find(d, "llm_models")
  IN  IF Len(found) < 2
      THEN { [op |-> "battle", status |-> 500, req |-> <<>>,
              body |-> "Need at least 2 models to battle"] }
      ELSE { [op |-> "battle", status |-> 200, req |-> <<>>,
              body |-> [model1 |-> selected_models[1], model2 |-> selected_models[2]]] :
               selected_models \in random_sample_2(found) }

\* server.py:401-403.
get_leaderboard_responses(d) ==
  { [op |-> "leaderboard", status |-> 200, req |-> <<>>, body |-> sorted] :
      sorted \in find_sort(d, "llm_models", leaderboard_sort) }

\* server.py:411-424.
get_battle_stats_responses(d) ==
  LET total_votes == count_documents(d, "votes")
      total_models == count_documents(d, "llm_models")
  IN  { [op |-> "stats", status |-> 200, req |-> <<>>,
         body |-> [total_votes |-> total_votes,
                   total_models |-> total_models,
                   top_model |-> IF top_models # <<>> THEN top_models[1].name ELSE None,
                   battles_completed |-> total_votes]] :
          top_models \in find_sort_limit_1(d, "llm_models", top_model_sort) }

-----------------------------------------------------------------------------
(* Requests one after another.                                             *)

NoLocal == [winner_id |-> 0, loser_id |-> 0, i |-> 0, win_rate |-> 0]

Init ==
  /\ db = [llm_models |-> <<>>, votes |-> <<>>]
  /\ uuid = 0
  /\ seeded = 0
  /\ accepted = 0
  /\ response = [op |-> "none", status |-> 200, req |-> <<>>, body |-> <<>>]
  /\ pc = [c \in Clients |-> "idle"]
  /\ local = [c \in Clients |-> NoLocal]

\* What a client may send as an id: an id of the catalog, or one that
\* matches nothing (the id of an entity dropped by a reseed matches nothing
\* either, and behaves as these do).
VoteIds ==
  { db.llm_models[i].id : i \in 1 .. Len(db.llm_models) } \cup {UnknownId, OtherUnknownId}

\* The vote requests of the model.  The handler only compares an id with
\* the ids of the catalog, so the two unknown ids are interchangeable:
\* OtherUnknownId is sent only as the loser against UnknownId.
VoteRequests ==
  { r \in VoteIds \X VoteIds :
      /\ r[1] # OtherUnknownId
      /\ r[2] = OtherUnknownId => r[1] = UnknownId }

\* POST /models/seed
seed_models ==
  /\ seeded < MaxSeeds
  /\ db' = seed_models_db(db, uuid)
  /\ uuid' = uuid + Len(models)
  /\ seeded' = seeded + 1
  /\ response' = [op |-> "seed", status |-> 200, req |-> <<>>, body |-> Len(models)]
  /\ UNCHANGED <<accepted, pc, local>>

\* GET /models: returns one of get_all_models_responses(db).
get_all_models == UNCHANGED vars

\* GET /battle: returns one of get_battle_responses(db).
get_battle == UNCHANGED vars

\* POST /vote
submit_vote(winner_id, loser_id) ==
  /\ Len(db.votes) < MaxVotes
  /\ db' = submit_vote_db(db, winner_id, loser_id)
  /\ response' = [op |-> "vote", status |-> 200, req |-> <<winner_id, loser_id>>,
                  body |-> "Vote recorded successfully"]
  /\ accepted' = accepted + 1
  /\ UNCHANGED <<uuid, seeded, pc, local>>

\* GET /leaderboard: returns one of get_leaderboard_responses(db).
get_leaderboard == UNCHANGED vars

\* GET /stats: returns one of get_battle_stats_responses(db).
get_battle_stats == UNCHANGED vars

Next ==
  \/ seed_models
  \/ get_all_models
  \/ get_battle
  \/ \E r \in VoteRequests : submit_vote(r[1], r[2])
  \/ get_leaderboard
  \/ get_battle_stats

Spec == Init /\ [][Next]_vars

-----------------------------------------------------------------------------
(* Requests of several clients, interleaved.  A handler runs on the event  *)
(* loop until its next `await`; each awaited store call is one step, taken *)
(* together with the code that follows it up to the next await.            *)
(* The GET handlers make one store call for the catalog and change        *)
(* nothing: they can run in any state, between any two steps.              *)

Seeding == { c \in Clients : pc[c] = "seed_insert" }

\* The seed and vote requests that have started.
Started == seeded + Cardinality(Seeding) + Len(db.votes)

\* server.py:312: a seed request starts and drops the catalog.
seed_drop(c) ==
  /\ pc[c] = "idle"
  /\ seeded + Cardinality(Seeding) < MaxSeeds
  /\ Started < MaxRequests
  /\ db' = drop(db, "llm_models")
  /\ pc' = [pc EXCEPT ![c] = "seed_insert"]
  /\ local' = [local EXCEPT ![c].i = 1]
  /\ UNCHANGED <<uuid, seeded, response, accepted>>

\* server.py:315-319: one round of the insert loop; the last one returns.
seed_insert_one(c) ==
  /\ pc[c] = "seed_insert"
  /\ db' = insert_one(db, "llm_models", LLMModel(modelsC[local[c].i], uuid + 1))
  /\ uuid' = uuid + 1
  /\ UNCHANGED accepted
  /\ IF local[c].i < Len(modelsC)
     THEN /\ local' = [local EXCEPT ![c].i = @ + 1]
          /\ UNCHANGED <<pc, seeded, response>>
     ELSE /\ pc' = [pc EXCEPT ![c] = "idle"]
          /\ local' = [local EXCEPT ![c] = NoLocal]
          /\ seeded' = seeded + 1
          /\ response' = [op |-> "seed", status |-> 200, req |-> <<>>, body |-> Len(modelsC)]

\* server.py:358-362: a vote request starts and appends to the ledger.
vote_insert(c, winner_id, loser_id) ==
  /\ pc[c] = "idle"
  /\ Len(db.votes) < MaxVotes
  /\ Started < MaxRequests
  /\ db' = insert_one(db, "votes", Vote(winner_id, loser_id))
  /\ pc' = [pc EXCEPT ![c] = "inc_winner"]
  /\ local' = [local EXCEPT ![c] = [NoLocal EXCEPT !.winner_id = winner_id,
                                                   !.loser_id = loser_id]]
  /\ UNCHANGED <<uuid, seeded, response, accepted>>

\* server.py:365-371
vote_inc_winner(c) ==
  /\ pc[c] = "inc_winner"
  /\ db' = update_one_inc(db, "llm_models", local[c].winner_id, winner_update)
  /\ pc' = [pc EXCEPT ![c] = "inc_loser"]
  /\ UNCHANGED <<uuid, seeded, response, accepted, local>>

\* server.py:374-380
vote_inc_loser(c) ==
  /\ pc[c] = "inc_loser"
  /\ db' = update_one_inc(db, "llm_models", local[c].loser_id, loser_update)
  /\ pc' = [pc EXCEPT ![c] = "find"]
  /\ local' = [local EXCEPT ![c].i = 1]
  /\ UNCHANGED <<uuid, seeded, response, accepted>>

\* A loop that takes the loser's id in both rounds.
model_id_of_loser(c) == local[c].loser_id

\* server.py:383: the id of the round the loop is in.
model_id(c) == IF local[c].i = 1 THEN local[c].winner_id ELSE local[c].loser_id

\* server.py:383, 393: on to the loser's round, or return.
next_round(c, win_rate) ==
  IF local[c].i = 1
  THEN /\ pc' = [pc EXCEPT ![c] = "find"]
       /\ local' = [local EXCEPT ![c].i = 2, ![c].win_rate = win_rate]
       /\ UNCHANGED <<response, accepted>>
  ELSE /\ pc' = [pc EXCEPT ![c] = "idle"]
       /\ local' = [local EXCEPT ![c] = NoLocal]
       /\ response' = [op |-> "vote", status |-> 200,
                       req |-> <<local[c].winner_id, local[c].loser_id>>,
                       body |-> "Vote recorded successfully"]
       /\ accepted' = accepted + 1

\* server.py:384-387: read the entity and work out its win rate.
vote_find(c) ==
  /\ pc[c] = "find"
  /\ LET model == find_one(db, "llm_models", model_id(c))
     IN  IF model # <<>>
         THEN /\ pc' = [pc EXCEPT ![c] = "set"]
              /\ local' = [local EXCEPT ![c].win_rate = calculate_win_rate(model[1])]
              /\ UNCHANGED <<response, accepted>>
         ELSE next_round(c, 0)
  /\ UNCHANGED <<db, uuid, seeded>>

\* server.py:388-391: write the win rate.
vote_set(c) ==
  /\ pc[c] = "set"
  /\ db' = update_one_set(db, "llm_models", model_id(c), local[c].win_rate)
  /\ next_round(c, 0)
  /\ UNCHANGED <<uuid, seeded>>

NextC ==
  \/ \E c \in Clients : seed_drop(c)
  \/ \E c \in Clients : seed_insert_one(c)
  \/ \E c \in Clients : \E r \in VoteRequests : vote_insert(c, r[1], r[2])
  \/ \E c \in Clients : vote_inc_winner(c)
  \/ \E c \in Clients : vote_inc_loser(c)
  \/ \E c \in Clients : vote_find(c)
  \/ \E c \in Clients : vote_set(c)
  \/ get_all_models
  \/ get_battle
  \/ get_leaderboard
  \/ get_battle_stats

SpecC == Init /\ [][NextC]_vars

-----------------------------------------------------------------------------
(* What the statements below speak of.                                     *)

Catalog(d) == { d.llm_models[i] : i \in 1 .. Len(d.llm_models) }

CatalogIds(d) == { m.id : m \in Catalog(d) }

Entity(d, id) == CHOOSE m \in Catalog(d) : m.id = id

Counters(m) == <<m.total_votes, m.wins, m.losses>>

\* A step of Spec in which submit_vote(winner_id, loser_id) ran.
VoteStep(winner_id, loser_id) ==
  /\ response'.op = "vote"
  /\ response'.req = <<winner_id, loser_id>>
  /\ vars' # vars

\* A step of Spec in which seed_models ran.
SeedStep == response'.op = "seed" /\ seeded' = seeded + 1

\* w is wins / total_votes * 100 rounded to one decimal, in tenths: no other
\* tenth is nearer, and of two equally near tenths w is the even one.
NearestTenth(w, wins, total_votes) ==
  LET err == IF w * total_votes >= 1000 * wins
             THEN w * total_votes - 1000 * wins
             ELSE 1000 * wins - w * total_votes
  IN  /\ 2 * err <= total_votes
      /\ 2 * err = total_votes => w % 2 = 0

-----------------------------------------------------------------------------
\* C1: submit_vote(a, a) fails with InvalidVote before any mutation: no
\* record is added to the ledger and no entity's counters or win_rate change.
C1_SelfVoteRejected ==
  [][\A a \in VoteIds :
       VoteStep(a, a) => response'.status # 200 /\ db' = db]_vars

\* C2: requests one after another: after each of them every entity of the
\* catalog has total_votes = wins + losses.
C2_TotalIsWinsPlusLosses ==
  \A m \in Catalog(db) : m.total_votes = m.wins + m.losses

C2_Witness ==
  /\ seeded = 2
  /\ \E m \in Catalog(db) : m.wins >= 1 /\ m.losses >= 1 /\ m.total_votes >= 2

\* C3: requests one after another: after each seed or vote every entity has
\* win_rate = round(wins / total_votes * 100, 1) when total_votes > 0 and
\* win_rate = 0.0 when total_votes = 0.
C3_WinRateCurrent ==
  \A m \in Catalog(db) :
    IF m.total_votes = 0 THEN m.win_rate = 0
    ELSE NearestTenth(m.win_rate, m.wins, m.total_votes)

C3_Witness ==
  /\ \E m \in Catalog(db) : m.total_votes = 2 /\ m.wins = 1 /\ m.win_rate = 500
  /\ \E m \in Catalog(db) : m.total_votes = 1 /\ m.wins = 1 /\ m.win_rate = 1000
  /\ \E m \in Catalog(db) : m.total_votes = 0 /\ m.win_rate = 0

\* C4: a vote winner = A, loser = B, A # B, both in the catalog: A.wins and
\* A.total_votes are 1 greater and A.losses is unchanged, B.losses and
\* B.total_votes are 1 greater and B.wins is unchanged; from a freshly seeded
\* state A ends with wins = 1, total_votes = 1, win_rate = 100.0 and B with
\* losses = 1, total_votes = 1, win_rate = 0.0.
C4_VoteCountsOnce ==
  [][\A A \in CatalogIds(db), B \in CatalogIds(db) :
       (A # B /\ VoteStep(A, B)) =>
         LET a == Entity(db, A)
             b == Entity(db, B)
             a2 == Entity(db', A)
             b2 == Entity(db', B)
         IN  /\ Counters(a2) = <<a.total_votes + 1, a.wins + 1, a.losses>>
             /\ Counters(b2) = <<b.total_votes + 1, b.wins, b.losses + 1>>
             /\ (a.total_votes = 0 /\ b.total_votes = 0) =>
                  a2.win_rate = 1000 /\ b2.win_rate = 0]_vars

C4_Witness ==
  /\ response.op = "vote"
  /\ Len(db.votes) = 1
  /\ response.req[1] # response.req[2]
  /\ {response.req[1], response.req[2]} \subseteq CatalogIds(db)
  /\ Counters(Entity(db, response.req[1])) = <<1, 1, 0>>
  /\ Entity(db, response.req[1]).win_rate = 1000
  /\ Counters(Entity(db, response.req[2])) = <<1, 0, 1>>
  /\ Entity(db, response.req[2]).win_rate = 0

\* C5: GET /battle fails and returns no pairing whenever the catalog holds
\* fewer than 2 entities; whenever it holds 2 or more, the two entities it
\* returns are members of the catalog and never have the same id.
C5_BattlePair ==
  \A r \in get_battle_responses(db) :
    IF Len(db.llm_models) < 2
    THEN r.status # 200
    ELSE /\ r.status = 200
         /\ r.body.model1 \in Catalog(db)
         /\ r.body.model2 \in Catalog(db)
         /\ r.body.model1.id # r.body.model2.id

C5_Witness ==
  \E r \in get_battle_responses(db) :
    /\ r.status = 200
    /\ r.body.model1.wins = 1
    /\ r.body.model2.losses = 1

\* C6: a vote with two different ids that match no entity (the catalog may
\* be empty) appends exactly one record to the ledger, leaves every entity
\* unchanged and returns success.
C6_DanglingVoteRecorded ==
  [][\A a \in VoteIds, b \in VoteIds :
       (a # b /\ {a, b} \cap CatalogIds(db) = {} /\ VoteStep(a, b)) =>
         /\ db'.votes = Append(db.votes, [winner_id |-> a, loser_id |-> b])
         /\ db'.llm_models = db.llm_models
         /\ response'.status = 200]_vars

C6_Witness ==
  /\ response.op = "vote"
  /\ response.req[1] # response.req[2]
  /\ {response.req[1], response.req[2]} \cap CatalogIds(db) = {}
  /\ Len(db.votes) = 2
  /\ \E m \in Catalog(db) : m.wins = 1

\* C7: a reseed leaves the ledger unchanged: with n records before, the
\* ledger holds the same n records after, /stats then reports
\* total_votes = n, and every entity of the catalog has zeroed counters.
C7_ReseedKeepsLedger ==
  [][SeedStep =>
       /\ db'.votes = db.votes
       /\ \A r \in get_battle_stats_responses(db') : r.body.total_votes = Len(db.votes)
       /\ \A m \in Catalog(db') : Counters(m) = <<0, 0, 0>>]_vars

C7_Witness ==
  /\ response.op = "seed"
  /\ seeded = 2
  /\ Len(db.votes) = MaxVotes
  /\ \A m \in Catalog(db) : m.total_votes = 0

\* C8: after a seed that runs alone the catalog is exactly the seed list (one
\* entity per item, none from before the seed, ids pairwise different) and
\* every entity has total_votes = wins = losses = 0 and win_rate = 0.0.
C8_SeedReplacesCatalog ==
  [][SeedStep =>
       /\ Len(db'.llm_models) = Len(models)
       /\ \A i \in 1 .. Len(models) :
            LET m == db'.llm_models[i]
            IN  /\ m.name = models[i].name
                /\ m.provider = models[i].provider
                /\ m.description = models[i].description
                /\ m.capabilities = models[i].capabilities
                /\ m.performance_score = models[i].performance_score
                /\ Counters(m) = <<0, 0, 0>>
                /\ m.win_rate = 0
                /\ m.id \notin CatalogIds(db)
       /\ \A i \in 1 .. Len(models), j \in 1 .. Len(models) :
            i # j => db'.llm_models[i].id # db'.llm_models[j].id]_vars

C8_Witness ==
  /\ response.op = "seed"
  /\ seeded = 2
  /\ Len(db.llm_models) = Len(models)
  /\ \E i \in 1 .. Len(db.votes) : db.votes[i].winner_id \in 1 .. Len(models)

\* The catalog c is one complete copy of the seed list.
CompleteCatalog(c) ==
  /\ Len(c) = Len(modelsC)
  /\ \A i \in 1 .. Len(modelsC) : c[i].name = modelsC[i].name

\* C9: seed replaces the whole catalog atomically: whatever runs beside a
\* seed finds the complete catalog of before that seed (empty before the
\* first seed has returned) or the complete new one, never an empty or
\* partly inserted one, and once all seeds have returned the catalog holds
\* exactly one copy of the seed list.
C9_SeedAtomic ==
  \/ seeded = 0 /\ db.llm_models = <<>>
  \/ CompleteCatalog(db.llm_models)

C12_TopModelHasMostWins ==
  \A r \in get_battle_stats_responses(db) :
    /\ r.body.total_models = Cardinality(Catalog(db))
    /\ (r.body.top_model = None) <=> (Catalog(db) = {})
    /\ Catalog(db) # {} =>
         \E m \in Catalog(db) :
           /\ m.name = r.body.top_model
           /\ \A n \in Catalog(db) : n.wins <= m.wins

C12_Witness ==
  /\ \E m \in Catalog(db) : m.wins = 1
  /\ \E m \in Catalog(db) : m.wins = 0
  /\ \A r \in get_battle_stats_responses(db) :
       /\ r.body.total_models = Len(models)
       /\ \E m \in Catalog(db) : m.name = r.body.top_model /\ m.wins = 1

\* The fields of an entity that no vote may touch.
Fixed(m) ==
  <<m.id, m.name, m.provider, m.description, m.capabilities, m.performance_score, m.image_url>>

\* C16: submit_vote(winner_id, loser_id) changes only the records of the two
\* entities it names, and in them only total_votes, wins, losses and
\* win_rate: every other record is unchanged, and id, name, provider,
\* description, capabilities and performance_score of no entity change.
C16_VoteFrame ==
  [][\A w \in VoteIds, l \in VoteIds :
       VoteStep(w, l) =>
         /\ Len(db'.llm_models) = Len(db.llm_models)
         /\ \A i \in 1 .. Len(db.llm_models) :
              /\ Fixed(db'.llm_models[i]) = Fixed(db.llm_models[i])
              /\ db.llm_models[i].id \notin {w, l} => db'.llm_models[i] = db.llm_models[i]]_vars

C16_Witness ==
  /\ response.op = "vote"
  /\ response.req[1] # response.req[2]
  /\ {response.req[1], response.req[2]} \subseteq CatalogIds(db)
  /\ \E m \in Catalog(db) :
       /\ m.id \notin {response.req[1], response.req[2]}
       /\ m.wins = 1
       /\ m.win_rate = 1000
  /\ Entity(db, response.req[2]).win_rate = 0

\* C17: when exactly one of the two ids of a vote matches an entity, the vote
\* is applied in part and still reported as success: the ledger gains one
\* record, the matching entity's counters go up (wins if it is the winner,
\* losses if it is the loser) and its win_rate is worked out anew, nothing
\* is done for the missing id and no entity is created.
C17_HalfAppliedVote ==
  [][\A w \in VoteIds, l \in VoteIds :
       (VoteStep(w, l) /\ Cardinality({w, l} \cap CatalogIds(db)) = 1 /\ w # l) =>
         LET id == CHOOSE x \in {w, l} : x \in CatalogIds(db)
             m == Entity(db, id)
             m2 == Entity(db', id)
         IN  /\ response'.status = 200
             /\ db'.votes = Append(db.votes, [winner_id |-> w, loser_id |-> l])
             /\ CatalogIds(db') = CatalogIds(db)
             /\ Len(db'.llm_models) = Len(db.llm_models)
             /\ Counters(m2) = IF id = w
                               THEN <<m.total_votes + 1, m.wins + 1, m.losses>>
                               ELSE <<m.total_votes + 1, m.wins, m.losses + 1>>
             /\ NearestTenth(m2.win_rate, m2.wins, m2.total_votes)
             /\ \A n \in Catalog(db) : n.id # id => n \in Catalog(db')]_vars

C17_Witness ==
  /\ response.op = "vote"
  /\ response.req[1] \notin CatalogIds(db)
  /\ response.req[2] \in CatalogIds(db)
  /\ Counters(Entity(db, response.req[2])) = <<2, 1, 1>>
  /\ Entity(db, response.req[2]).win_rate = 500
  /\ Len(db.votes) = 2

-----------------------------------------------------------------------------
(* Interleaved requests.                                                   *)

\* No request is under way.
Quiescent == \A c \in Clients : pc[c] = "idle"

\* Exactly one seed has run, and it has returned: no entity was ever dropped.
SeededOnce == seeded = 1 /\ uuid = Len(modelsC)

\* How many records of the ledger name id as winner, as loser.
NamedWinner(id) == Cardinality({ i \in 1 .. Len(db.votes) : db.votes[i].winner_id = id })

NamedLoser(id) == Cardinality({ i \in 1 .. Len(db.votes) : db.votes[i].loser_id = id })

RECURSIVE SumOf(_, _)
SumOf(field, c) == IF c = <<>> THEN 0 ELSE Head(c)[field] + SumOf(field, Tail(c))

\* The store after the votes vs, taken one after another from the store d.
RECURSIVE Replay(_, _)
Replay(d, vs) ==
  IF vs = <<>> THEN d
  ELSE Replay(submit_vote_db(d, Head(vs).winner_id, Head(vs).loser_id), Tail(vs))

\* The catalog as its seed left it, with an empty ledger.
AsSeeded ==
  [llm_models |-> [i \in 1 .. Len(db.llm_models) |->
                     [db.llm_models[i] EXCEPT !.total_votes = 0, !.wins = 0,
                                              !.losses = 0, !.win_rate = 0]],
   votes |-> <<>>]

\* The ledger in every order.
LedgerOrders ==
  { [i \in 1 .. Len(db.votes) |-> db.votes[p[i]]] : p \in Permutations(1 .. Len(db.votes)) }

\* The ids the records of the ledger name, one entry per mention.
Mentions == [i \in 1 .. 2 * Len(db.votes) |->
               IF i % 2 = 1 THEN db.votes[(i + 1) \div 2].winner_id
                            ELSE db.votes[i \div 2].loser_id]

\* The votes of the ledger name existing entities, no entity twice.
DisjointPairs ==
  /\ \A i \in DOMAIN Mentions : Mentions[i] \in CatalogIds(db)
  /\ \A i \in DOMAIN Mentions, j \in DOMAIN Mentions : i # j => Mentions[i] # Mentions[j]

\* C13: two concurrent votes on the same entity can lose a win_rate update:
\* a state is reachable in which both votes have returned and the entity's
\* win_rate is not round(wins / total_votes * 100, 1) (C13_Witness).  What
\* stays true: once every request has returned, the win_rate of an entity
\* with votes is the rounded rate of counters it had at some moment, no
\* greater than those it has now.
C13_WinRateOfEarlierCounters ==
  Quiescent =>
    \A m \in Catalog(db) :
      m.total_votes > 0 =>
        \E w \in 0 .. m.wins, l \in 0 .. m.losses :
          w + l > 0 /\ NearestTenth(m.win_rate, w, w + l)

C13_Witness ==
  /\ Quiescent
  /\ accepted = 2
  /\ SeededOnce
  /\ \E m \in Catalog(db) :
       /\ Counters(m) = <<2, 1, 1>>
       /\ m.win_rate # 500

\* C14: concurrent votes that name disjoint pairs of existing entities are
\* independent: whatever the interleaving, once all have returned the
\* catalog and the ledger's record count are those the same votes give when
\* run one after another, in any order.
C14_DisjointVotesIndependent ==
  (Quiescent /\ SeededOnce /\ DisjointPairs) =>
    /\ accepted = Len(db.votes)
    /\ \A vs \in LedgerOrders :
         /\ Replay(AsSeeded, vs).llm_models = db.llm_models
         /\ Len(Replay(AsSeeded, vs).votes) = Len(db.votes)
    /\ \A m \in Catalog(db) :
         /\ Counters(m) = <<NamedWinner(m.id) + NamedLoser(m.id), NamedWinner(m.id), NamedLoser(m.id)>>
         /\ m.win_rate = IF NamedWinner(m.id) = 1 THEN 1000 ELSE 0

C14_Witness ==
  /\ Quiescent
  /\ SeededOnce
  /\ DisjointPairs
  /\ Len(db.votes) = 2
  /\ Cardinality({ m \in Catalog(db) : m.total_votes = 1 }) = 4

\* C15: over the life of an entity (from its insertion by a seed until a
\* reseed drops it) total_votes, wins and losses never decrease in any step
\* of any request, and only the drop of a seed removes an entity.
C15_CountersNeverDecrease ==
  [][\A m \in Catalog(db) :
       IF m.id \in CatalogIds(db')
       THEN /\ Entity(db', m.id).total_votes >= m.total_votes
            /\ Entity(db', m.id).wins >= m.wins
            /\ Entity(db', m.id).losses >= m.losses
       ELSE \E c \in Clients : pc[c] = "idle" /\ pc'[c] = "seed_insert"]_vars

\* An entity was voted for and a later reseed, now returned, has ended its
\* life.
C15_Witness ==
  /\ \E i \in 1 .. Len(db.votes) :
       /\ db.votes[i].winner_id >= 1
       /\ db.votes[i].winner_id # db.votes[i].loser_id
       /\ db.votes[i].winner_id \notin CatalogIds(db)
  /\ accepted >= 1
  /\ seeded = 2
  /\ Quiescent

\* C18: total_votes = wins + losses for every entity in every reachable
\* state, the states in the middle of votes and seeds interleaved with one
\* another included.
C18_TotalIsWinsPlusLossesMidway ==
  \A i \in 1 .. Len(db.llm_models) :
    db.llm_models[i].total_votes = db.llm_models[i].wins + db.llm_models[i].losses

C18_Witness ==
  /\ \E c \in Clients : pc[c] = "inc_loser" /\ local[c].winner_id \in CatalogIds(db)
  /\ \E c \in Clients : pc[c] = "set"
  /\ \E m \in Catalog(db) : m.total_votes = 2

\* C19: no increment is lost: with no reseed, once all votes have returned
\* every entity's wins is the number of votes that name it as winner and
\* its losses the number that name it as loser (only win_rate may be stale).
C19_NoLostIncrement ==
  (Quiescent /\ SeededOnce) =>
    \A m \in Catalog(db) :
      /\ m.wins = NamedWinner(m.id)
      /\ m.losses = NamedLoser(m.id)

C19_Witness ==
  /\ Quiescent
  /\ SeededOnce
  /\ Len(db.votes) = 2
  /\ \E m \in Catalog(db) :
       /\ NamedWinner(m.id) = 1
       /\ NamedLoser(m.id) = 1
       /\ m.wins = 1
       /\ m.losses = 1
       /\ m.win_rate = 1000

\* C20: in every reachable state the wins of the catalog add up to no more
\* than the ledger's record count; and once all requests have returned
\* after one seed on an empty ledger and votes that all name existing
\* entities, the sum of wins, the sum of losses and the record count are
\* equal.
C20_Conservation ==
  /\ SumOf("wins", db.llm_models) <= Len(db.votes)
  /\ (/\ Quiescent
      /\ SeededOnce
      /\ \A i \in 1 .. Len(db.votes) :
           {db.votes[i].winner_id, db.votes[i].loser_id} \subseteq CatalogIds(db)) =>
       /\ SumOf("wins", db.llm_models) = Len(db.votes)
       /\ SumOf("losses", db.llm_models) = Len(db.votes)

C20_Witness ==
  /\ Quiescent
  /\ SeededOnce
  /\ Len(db.votes) = 2
  /\ \A i \in 1 .. Len(db.votes) :
       {db.votes[i].winner_id, db.votes[i].loser_id} \subseteq CatalogIds(db)
  /\ SumOf("wins", db.llm_models) = 2
  /\ SumOf("losses", db.llm_models) = 2
  /\ \E m \in Catalog(db) : m.wins = 2

=============================================================================
